---------------------------- MODULE Spec2Model ----------------------------
(***************************************************************************)
(* Model of hockey_scraper/nhl/json_schedule.py: the schedule scraper.     *)
(*                                                                         *)
(*   get_schedule          one request to the schedule endpoint            *)
(*   chunk_schedule_calls  a date range split into calls of 100 days       *)
(*   scrape_schedule       the chunks flattened into game records          *)
(*   get_dates             the records of a given list of game ids         *)
(*                                                                         *)
(* A call is one run of the state machine: the call action evaluates the   *)
(* code up to the first request, every request to the endpoint is one      *)
(* step (the endpoint is the environment: it answers or fails), and the    *)
(* last step evaluates the rest of the call.                               *)
(*                                                                         *)
(* Text is modelled by what the code reads from it:                        *)
(*   - a date string "Y-M-D" is the tuple <<Y, M, D>> of its three numbers *)
(*     (Y = 0 stands for text that "%Y", four digits, does not match);     *)
(*   - a decimal string is the sequence of its digits;                     *)
(*   - None is the empty sequence <<>>, a present value v is <<v>>;        *)
(*     a missing dict key is <<>> too, and reading it raises KeyError.     *)
(***************************************************************************)
EXTENDS Integers, Sequences, FiniteSets, TLC

(***************************************************************************)
(* Calendar: datetime.strptime, datetime.strftime, timedelta.              *)
(***************************************************************************)

\* days_per_call
days_per_call == 100

IsLeap(y) == (y % 4 = 0) /\ ((y % 100 # 0) \/ (y % 400 = 0))

DaysInMonth(y, m) ==
    IF m = 2 THEN (IF IsLeap(y) THEN 29 ELSE 28)
    ELSE IF m \in {4, 6, 9, 11} THEN 30 ELSE 31

RECURSIVE DaysBeforeMonth(_, _)
DaysBeforeMonth(y, m) ==
    IF m <= 1 THEN 0 ELSE DaysBeforeMonth(y, m - 1) + DaysInMonth(y, m - 1)

DaysBeforeYear(y) ==
    LET p == y - 1 IN p * 365 + (p \div 4) - (p \div 100) + (p \div 400)

\* Whether strptime(s, "%Y-%m-%d") accepts the date string s.
ValidDate(s) ==
    /\ s[1] \in 1..9999
    /\ s[2] \in 1..12
    /\ s[3] >= 1
    /\ s[3] <= DaysInMonth(s[1], s[2])

\* datetime.strptime(s, "%Y-%m-%d") as the day's proleptic Gregorian ordinal.
strptime(s) == DaysBeforeYear(s[1]) + DaysBeforeMonth(s[1], s[2]) + s[3]

RECURSIVE MonthOf(_, _, _)
\* The month holding day-of-year n (1-based), searched from month m.
MonthOf(y, m, n) ==
    IF n <= DaysInMonth(y, m) THEN <<m, n>>
    ELSE MonthOf(y, m + 1, n - DaysInMonth(y, m))

\* datetime.strftime(d, "%Y-%m-%d"): the date string of ordinal n.
strftime(n) ==
    LET n0   == n - 1
        n400 == n0 \div 146097
        r400 == n0 % 146097
        n100 == r400 \div 36524
        r100 == r400 % 36524
        n4   == r100 \div 1461
        r4   == r100 % 1461
        n1   == r4 \div 365
        r1   == r4 % 365
        y    == n400 * 400 + n100 * 100 + n4 * 4 + n1 + 1
    IN  IF n1 = 4 \/ n100 = 4
        THEN <<y - 1, 12, 31>>
        ELSE LET md == MonthOf(y, 1, r1 + 1) IN <<y, md[1], md[2]>>

\* Date strings compared as dates.
DateLT(a, b) ==
    \/ a[1] < b[1]
    \/ a[1] = b[1] /\ a[2] < b[2]
    \/ a[1] = b[1] /\ a[2] = b[2] /\ a[3] < b[3]

DateLE(a, b) == a = b \/ DateLT(a, b)

\* The calendar day after date a.
NextDay(a) ==
    IF a[3] < DaysInMonth(a[1], a[2]) THEN <<a[1], a[2], a[3] + 1>>
    ELSE IF a[2] < 12 THEN <<a[1], a[2] + 1, 1>>
    ELSE <<a[1] + 1, 1, 1>>

(***************************************************************************)
(* Decimal strings: str, slicing, int.                                     *)
(***************************************************************************)

RECURSIVE str(_)
\* str(n) of an integer n >= 0: its decimal digits.
str(n) == IF n < 10 THEN <<n>> ELSE Append(str(n \div 10), n % 10)

RECURSIVE int(_)
\* int(s) of a non-empty digit string s.
int(s) ==
    IF Len(s) = 0 THEN 0
    ELSE int(SubSeq(s, 1, Len(s) - 1)) * 10 + s[Len(s)]

\* s[:k]
Prefix(s, k) == SubSeq(s, 1, IF Len(s) < k THEN Len(s) ELSE k)

\* s[k:]
DropPrefix(s, k) == SubSeq(s, k + 1, Len(s))

RECURSIVE StrLT(_, _)
\* Python's order of strings, on digit strings: lexicographic.
StrLT(a, b) ==
    IF Len(b) = 0 THEN FALSE
    ELSE IF Len(a) = 0 THEN TRUE
    ELSE IF a[1] # b[1] THEN a[1] < b[1]
    ELSE StrLT(Tail(a), Tail(b))

RECURSIVE Insert(_, _)
Insert(x, s) ==
    IF Len(s) = 0 THEN <<x>>
    ELSE IF StrLT(x, s[1]) THEN <<x>> \o s
    ELSE <<s[1]>> \o Insert(x, Tail(s))

RECURSIVE SortStr(_)
\* list.sort() of a list of strings.
SortStr(s) == IF Len(s) = 0 THEN <<>> ELSE Insert(s[Len(s)], SortStr(SubSeq(s, 1, Len(s) - 1)))

(***************************************************************************)
(* External collaborators of the module (hockey_scraper.utils.shared).     *)
(***************************************************************************)

\* shared.get_season(date): the season a date belongs to, as the text of its
\* starting year; a season starts on September 1.
get_season(d) == str(IF d[2] >= 9 THEN d[1] ELSE d[1] - 1)

\* name.upper()
upper(name) ==
    CASE name = "New York Rangers"   -> "NEW YORK RANGERS"
      [] name = "Montreal Canadiens" -> "MONTREAL CANADIENS"
      [] OTHER                       -> name

\* shared.get_team(name): the canonical team identifier.
get_team(name) ==
    CASE name = "NEW YORK RANGERS"   -> "NYR"
      [] name = "MONTREAL CANADIENS" -> "MTL"
      [] OTHER                       -> name

(***************************************************************************)
(* scrape_schedule: the walk over chunks, days and games.                  *)
(***************************************************************************)

\* game['status']['detailedState'] == 'Final' or not_over
PassesCompletion(game, no) == game.status[1].detailedState = "Final" \/ no

\* str(game['gamePk'])[5:]
IdText(game) == DropPrefix(str(game.gamePk), 5)

\* The game-type filter with its upper bound included.
PassesGameType_inclusive(game_id, ps) == (game_id >= 20000 \/ ps) /\ game_id <= 40000

\* (game_id >= 20000 or preseason) and game_id < 40000
PassesGameType(game_id, ps) == (game_id >= 20000 \/ ps) /\ game_id < 40000

\* Whether strptime(stamp, "%Y-%m-%dT%H:%M:%S") accepts the six numbers.
ValidStamp(t) ==
    /\ ValidDate(<<t[1], t[2], t[3]>>)
    /\ t[4] \in 0..23 /\ t[5] \in 0..59 /\ t[6] \in 0..61

\* The status read from detailedState.
StatusOf_detailed(game) == game.status[1].detailedState

\* game["status"]["abstractGameState"]
StatusOf(game) == game.status[1].abstractGameState

\* The dict appended for a game of a day.
GameRecord(day, game) ==
    [game_id    |-> game.gamePk,
     date       |-> day.date,
     start_time |-> game.gameDate.stamp,
     venue      |-> game.venue[1].name,
     home_team  |-> get_team(upper(game.teams[1].home.name)),
     away_team  |-> get_team(upper(game.teams[1].away.name)),
     home_score |-> game.teams[1].home.score,
     away_score |-> game.teams[1].away.score,
     status     |-> StatusOf(game)]

\* The exception the loop body raises on a game ("" when it raises none), in
\* the order the body reads the game's fields.
GameError(game, ps, no) ==
    IF game.status = <<>> THEN "KeyError"
    ELSE IF ~PassesCompletion(game, no) THEN ""
    ELSE IF IdText(game) = <<>> THEN "ValueError"
    ELSE IF ~PassesGameType(int(IdText(game)), ps) THEN ""
    ELSE IF ~ValidStamp(game.gameDate.stamp) THEN "ValueError"
    ELSE IF game.venue = <<>> THEN "KeyError"
    ELSE IF game.teams = <<>> THEN "KeyError"
    ELSE ""

\* Whether the loop body reaches schedule.append for the game.
Appends(game, ps, no) ==
    /\ game.status # <<>>
    /\ PassesCompletion(game, no)
    /\ IdText(game) # <<>>
    /\ PassesGameType(int(IdText(game)), ps)

RECURSIVE WalkGames(_, _, _, _, _)
\* for game in day['games']: acc is [error, schedule] so far.
WalkGames(day, gs, ps, no, acc) ==
    IF acc.error # "" \/ Len(gs) = 0 THEN acc
    ELSE LET g == gs[1]
             e == GameError(g, ps, no)
         IN  IF e # "" THEN [acc EXCEPT !.error = e]
             ELSE WalkGames(day, Tail(gs), ps, no,
                      IF Appends(g, ps, no)
                      THEN [acc EXCEPT !.schedule = Append(@, GameRecord(day, g))]
                      ELSE acc)

RECURSIVE WalkDays(_, _, _, _)
\* for day in chunk
WalkDays(days, ps, no, acc) ==
    IF acc.error # "" \/ Len(days) = 0 THEN acc
    ELSE WalkDays(Tail(days), ps, no, WalkGames(days[1], days[1].games, ps, no, acc))

RECURSIVE WalkChunks(_, _, _, _)
\* for chunk in schedule_json
WalkChunks(chunks, ps, no, acc) ==
    IF acc.error # "" \/ Len(chunks) = 0 THEN acc
    ELSE WalkChunks(Tail(chunks), ps, no, WalkDays(chunks[1], ps, no, acc))

(***************************************************************************)
(* chunk_schedule_calls: the bounds of the call at an offset.              *)
(***************************************************************************)

Min(a, b) == IF a < b THEN a ELSE b

\* f_chunk: from_date + timedelta(days=offset)
f_chunk(from, off) == strftime(from + off)

\* t_chunk without the min: the last call runs past to_date.
t_chunk_overshoot(from, n, off) == strftime(from + off + days_per_call - 1)

\* t_chunk: from_date + timedelta(days=min(num_days-1, offset+days_per_call-1))
t_chunk(from, n, off) == strftime(from + Min(n - 1, off + days_per_call - 1))

\* The answers gathered newest first.
AppendChunk_front(s, dates) == <<dates>> \o s

\* sched.append(chunk_sched['dates'])
AppendChunk(s, dates) == Append(s, dates)

(***************************************************************************)
(* get_dates: the range of a list of game ids and the final filter.        *)
(***************************************************************************)

\* str(g) of a requested id, an integer or a numeric string.
StrOf(g) == IF g.t = "int" THEN str(g.n) ELSE g.s

\* list(map(str, games)) then games.sort()
SortedGames(arg) == SortStr([i \in 1..Len(arg) |-> StrOf(arg[i])])

\* The number "%Y" reads from a year text: four digits, or no match (0).
YearOf(text) == IF Len(text) = 4 THEN int(text) ELSE 0

\* date_from = '-'.join([games[0][:4], '9', '1'])
DateFromOf(gs) == <<YearOf(Prefix(gs[1], 4)), 9, 1>>

\* The end of the season taken in the year the season starts in.
SeasonEnd_sameYear(year_to) == <<int(year_to), 7, 1>>

\* date_to = '-'.join([str(int(year_to) + 1), '7', '1'])
SeasonEnd(year_to) == <<int(year_to) + 1, 7, 1>>

\* date_to, from the four reads of datetime.today(): line 81 reads the date
\* once for the season, line 82 reads the year, the month and the day.
DateToOf(gs, reads) ==
    LET year_to == Prefix(gs[Len(gs)], 4)
    IN  IF year_to = get_season(reads[1])
        THEN <<reads[2][1], reads[3][2], reads[4][3]>>
        ELSE SeasonEnd(year_to)

\* game['game_id'] in games: an integer is equal to none of the strings.
InGames_unconverted(game_id, gs) == \E i \in 1..Len(gs) : FALSE

\* str(game['game_id']) in games
InGames(game_id, gs) == \E i \in 1..Len(gs) : gs[i] = str(game_id)

RECURSIVE games_list(_, _)
\* for game in schedule: if ... in games: games_list.extend([game])
games_list(sch, gs) ==
    IF Len(sch) = 0 THEN <<>>
    ELSE (IF InGames(sch[1].game_id, gs) THEN <<sch[1]>> ELSE <<>>)
         \o games_list(Tail(sch), gs)

(***************************************************************************)
(* The endpoint: the league's schedule and the answers to a request.       *)
(***************************************************************************)

FinalState    == <<[detailedState |-> "Final", abstractGameState |-> "Final"]>>
PreviewState  == <<[detailedState |-> "Scheduled", abstractGameState |-> "Preview"]>>
LiveState     == <<[detailedState |-> "In Progress", abstractGameState |-> "Live"]>>
NoStatus      == <<>>

NamedVenue    == <<[name |-> <<"Madison Square Garden">>]>>
UnnamedVenue  == <<[name |-> <<>>]>>
NoVenue       == <<>>

ScoredTeams   == <<[home |-> [name |-> "New York Rangers", score |-> <<3>>],
                    away |-> [name |-> "Montreal Canadiens", score |-> <<2>>]]>>
UnscoredTeams == <<[home |-> [name |-> "New York Rangers", score |-> <<>>],
                    away |-> [name |-> "Montreal Canadiens", score |-> <<>>]]>>
NoTeams       == <<>>

\* One entry of a day's "games" array.
Game(pk, status, venue, teams) ==
    [gamePk   |-> pk,
     gameDate |-> [stamp |-> <<2016, 10, 12, 23, 0, 0>>, tz |-> "Z"],
     status   |-> status,
     venue    |-> venue,
     teams    |-> teams]

\* The first day of the modelled schedules.
D0 == <<2016, 10, 12>>

\* The date k days after D0.
Day(k) == strftime(strptime(D0) + k)

\* The games a day of the endpoint's schedule is drawn from: every game type
\* at the edges of the game-type filter, every completion state, and every
\* optional or required field present and missing.
Games ==
    << Game(2016020000, FinalState,   NamedVenue,   ScoredTeams),
       Game(2016019999, FinalState,   NamedVenue,   ScoredTeams),
       Game(2016039999, FinalState,   NamedVenue,   ScoredTeams),
       Game(2016040000, FinalState,   NamedVenue,   ScoredTeams),
       Game(2016020002, PreviewState, NamedVenue,   UnscoredTeams),
       Game(2016020003, LiveState,    NamedVenue,   ScoredTeams),
       Game(2016020004, FinalState,   UnnamedVenue, ScoredTeams),
       Game(2016020005, FinalState,   NoVenue,      ScoredTeams),
       Game(2016020006, FinalState,   NamedVenue,   NoTeams),
       Game(2016020007, PreviewState, NamedVenue,   NoTeams),
       Game(2016040001, FinalState,   NamedVenue,   NoTeams),
       Game(2016020008, NoStatus,     NamedVenue,   ScoredTeams),
       Game(2016010009, PreviewState, UnnamedVenue, UnscoredTeams) >>

\* Games per day of the one-day schedules.
MaxGames == 2

\* The lists of at most MaxGames games, in the order of Games.
GameLists ==
    LET idx == UNION {[1..n -> 1..Len(Games)] : n \in 0..MaxGames}
        inc == {s \in idx : \A i \in 1..Len(s), j \in 1..Len(s) : i < j => s[i] < s[j]}
    IN  {[i \in 1..Len(s) |-> Games[s[i]]] : s \in inc}

\* Schedules of one day.
DaySchedules == {<<[date |-> D0, games |-> gl]>> : gl \in GameLists}

\* The offsets from D0 of the days of the schedules of several days: the
\* first and last day of the first call of a long range, and the first day
\* of its second and third call.
LongOffsets == <<0, days_per_call - 1, days_per_call, 2 * days_per_call>>

\* The day at LongOffsets[i]: two games, the larger gamePk first.
LongDay(i) ==
    [date  |-> Day(LongOffsets[i]),
     games |-> << Game(2016020100 + 2 * i + 1, FinalState, NamedVenue, ScoredTeams),
                  Game(2016020100 + 2 * i, PreviewState, NamedVenue, UnscoredTeams) >>]

RECURSIVE DaysOf(_, _)
\* The days LongDay(i), i in S, in ascending order from day i on.
DaysOf(S, i) ==
    IF i > Len(LongOffsets) THEN <<>>
    ELSE (IF i \in S THEN <<LongDay(i)>> ELSE <<>>) \o DaysOf(S, i + 1)

\* Schedules of several days.
LongSchedules == {DaysOf(S, 1) : S \in SUBSET (1..Len(LongOffsets))}

RECURSIVE InRange(_, _, _)
\* The days of a schedule from date f to date t, in the schedule's order.
InRange(days, f, t) ==
    IF Len(days) = 0 THEN <<>>
    ELSE (IF DateLE(f, days[1].date) /\ DateLE(days[1].date, t)
          THEN <<days[1]>> ELSE <<>>) \o InRange(Tail(days), f, t)

RECURSIVE Reverse(_)
Reverse(s) == IF Len(s) = 0 THEN <<>> ELSE Append(Reverse(Tail(s)), s[1])

\* How the endpoint answers: with the days of the range in ascending order,
\* with the same days in descending order, or with days outside the range.
Modes == {"range", "descending", "unfiltered"}

\* The "dates" array of the endpoint's answer for startDate f, endDate t.
Dates(days, f, t, mode) ==
    CASE mode = "range"      -> InRange(days, f, t)
      [] mode = "descending" -> Reverse(InRange(days, f, t))
      [] mode = "unfiltered" -> days

\* How get_schedule fails: shared.get_file raises, json.loads raises on text
\* that is no JSON, or the parsed answer has no 'dates' key.
Failures == {"FetchError", "JSONDecodeError", "KeyError"}

(***************************************************************************)
(* The state of a call.                                                    *)
(***************************************************************************)

VARIABLES
    upstream,    \* the endpoint's schedule: days in ascending order
    pc,          \* "idle", "fetching", "returned" or "raised"
    op,          \* the function called: "scrape_schedule" or "get_dates"
    arg_games,   \* get_dates: the caller's list
    games,       \* get_dates: games, after map(str) and sort
    clock,       \* get_dates: the dates the four reads of today() gave
    date_from,   \* scrape_schedule's arguments
    date_to,
    preseason,
    not_over,
    from_date,   \* chunk_schedule_calls: from_date after strptime (an ordinal)
    num_days,
    offset,      \* the for loop's next offset
    fetches,     \* the requests made so far, each with how it ended and the
                 \* "dates" array it was answered with: [f, t, outcome, dates]
    sched,       \* chunk_schedule_calls: sched
    schedule,    \* what scrape_schedule returned
    result,      \* what the called function returned
    error        \* the exception the call raised, "" if none

vars == <<upstream, pc, op, arg_games, games, clock, date_from, date_to, preseason,
          not_over, from_date, num_days, offset, fetches, sched, schedule, result,
          error>>

InitOn(schedules) ==
    /\ upstream \in schedules
    /\ pc = "idle"
    /\ op = ""
    /\ arg_games = <<>>
    /\ games = <<>>
    /\ clock = <<>>
    /\ date_from = <<>>
    /\ date_to = <<>>
    /\ preseason = FALSE
    /\ not_over = FALSE
    /\ from_date = 0
    /\ num_days = 0
    /\ offset = 0
    /\ fetches = <<>>
    /\ sched = <<>>
    /\ schedule = <<>>
    /\ result = <<>>
    /\ error = ""

\* scrape_schedule(df, dt, ps, no) up to the for loop of chunk_schedule_calls.
Enter(df, dt, ps, no) ==
    /\ date_from' = df
    /\ date_to' = dt
    /\ preseason' = ps
    /\ not_over' = no
    /\ IF ValidDate(df) /\ ValidDate(dt)
       THEN /\ from_date' = strptime(df)
            /\ num_days' = strptime(dt) - strptime(df) + 1
            /\ pc' = "fetching"
            /\ error' = ""
       ELSE /\ from_date' = 0
            /\ num_days' = 0
            /\ pc' = "raised"
            /\ error' = "ValueError"
    /\ UNCHANGED <<upstream, offset, fetches, sched, schedule, result>>

\* A call of scrape_schedule.
scrape_schedule(df, dt, ps, no) ==
    /\ pc = "idle"
    /\ op' = "scrape_schedule"
    /\ UNCHANGED <<arg_games, games, clock>>
    /\ Enter(df, dt, ps, no)

\* A call of get_dates; reads are the dates its reads of today() give.
get_dates(arg, reads) ==
    /\ pc = "idle"
    /\ op' = "get_dates"
    /\ arg_games' = arg
    /\ clock' = reads
    /\ games' = SortedGames(arg)
    /\ IF Len(arg) = 0
       THEN /\ pc' = "raised"
            /\ error' = "IndexError"
            /\ UNCHANGED <<upstream, date_from, date_to, preseason, not_over,
                           from_date, num_days, offset, fetches, sched, schedule,
                           result>>
       ELSE Enter(DateFromOf(SortedGames(arg)), DateToOf(SortedGames(arg), reads),
                  TRUE, TRUE)

\* One pass of the for loop whose get_schedule call answers.
get_schedule(mode) ==
    /\ pc = "fetching"
    /\ offset < num_days
    /\ LET f == f_chunk(from_date, offset)
           t == t_chunk(from_date, num_days, offset)
           d == Dates(upstream, f, t, mode)
       IN  /\ fetches' = Append(fetches, [f |-> f, t |-> t, outcome |-> "ok", dates |-> d])
           /\ sched' = AppendChunk(sched, d)
    /\ offset' = offset + days_per_call
    /\ UNCHANGED <<upstream, pc, op, arg_games, games, clock, date_from, date_to,
                   preseason, not_over, from_date, num_days, schedule, result, error>>

\* The exception caught and the loop carried on with the next call.
get_schedule_skips(kind) ==
    /\ pc = "fetching"
    /\ offset < num_days
    /\ fetches' = Append(fetches, [f |-> f_chunk(from_date, offset),
                                   t |-> t_chunk(from_date, num_days, offset),
                                   outcome |-> kind, dates |-> <<>>])
    /\ offset' = offset + days_per_call
    /\ UNCHANGED <<upstream, pc, op, arg_games, games, clock, date_from, date_to,
                   preseason, not_over, from_date, num_days, sched, schedule, result,
                   error>>

\* One pass of the for loop whose get_schedule call raises: nothing catches
\* the exception, it ends the call.
get_schedule_raises(kind) ==
    /\ pc = "fetching"
    /\ offset < num_days
    /\ fetches' = Append(fetches, [f |-> f_chunk(from_date, offset),
                                   t |-> t_chunk(from_date, num_days, offset),
                                   outcome |-> kind, dates |-> <<>>])
    /\ pc' = "raised"
    /\ error' = kind
    /\ UNCHANGED <<upstream, op, arg_games, games, clock, date_from, date_to,
                   preseason, not_over, from_date, num_days, offset, sched, schedule,
                   result>>

\* The loop is over: chunk_schedule_calls returns sched, scrape_schedule walks
\* it and returns, and get_dates filters what scrape_schedule returned.
return ==
    /\ pc = "fetching"
    /\ offset >= num_days
    /\ LET w == WalkChunks(sched, preseason, not_over, [error |-> "", schedule |-> <<>>])
       IN  IF w.error # ""
           THEN /\ pc' = "raised"
                /\ error' = w.error
                /\ UNCHANGED <<schedule, result>>
           ELSE /\ pc' = "returned"
                /\ schedule' = w.schedule
                /\ result' = IF op = "get_dates" THEN games_list(w.schedule, games)
                             ELSE w.schedule
                /\ UNCHANGED error
    /\ UNCHANGED <<upstream, op, arg_games, games, clock, date_from, date_to,
                   preseason, not_over, from_date, num_days, offset, fetches, sched>>

(***************************************************************************)
(* scrape_schedule over schedules of one or several days.                  *)
(***************************************************************************)

\* The date ranges called with: one day, one full call, one day more, three
\* calls, an inverted range, and a date no calendar has.
Ranges ==
    { <<D0, D0>>, <<D0, Day(days_per_call - 1)>>, <<D0, Day(days_per_call)>>,
      <<D0, Day(2 * days_per_call)>>,
      <<Day(1), D0>>, <<<<2016, 2, 30>>, D0>> }

Init == InitOn(DaySchedules \cup LongSchedules)

Next ==
    \/ \E r \in Ranges, ps \in BOOLEAN, no \in BOOLEAN :
          scrape_schedule(r[1], r[2], ps, no)
    \/ \E mode \in Modes : get_schedule(mode)
    \/ \E kind \in Failures : get_schedule_raises(kind)
    \/ return

Spec == Init /\ [][Next]_vars

(***************************************************************************)
(* scrape_schedule over every range of up to MaxSpan + 1 days.             *)
(***************************************************************************)

\* The longest range called with, in days after its first day.
MaxSpan == 201

\* The first days called with: ranges that cross the end of a month, the end
\* of a year and a leap day.
ChunkStarts == { D0, <<2016, 9, 1>>, <<2015, 12, 15>> }

InitChunks == InitOn({ <<>>, DaysOf({1, 3}, 1) })

NextChunks ==
    \/ \E f \in ChunkStarts, k \in (-2)..MaxSpan :
          scrape_schedule(f, strftime(strptime(f) + k), FALSE, FALSE)
    \/ \E mode \in Modes : get_schedule(mode)
    \/ \E kind \in Failures : get_schedule_raises(kind)
    \/ return

SpecChunks == InitChunks /\ [][NextChunks]_vars

(***************************************************************************)
(* get_dates over the schedule of two seasons.                             *)
(***************************************************************************)

\* The schedule of the seasons 2016 and 2017: a regular-season game, a
\* playoff game, a preseason game and two games not played yet.
Seasons ==
    << [date  |-> <<2016, 10, 12>>,
        games |-> <<Game(2016020001, FinalState, NamedVenue, ScoredTeams)>>],
       [date  |-> <<2017, 6, 11>>,
        games |-> <<Game(2016030411, FinalState, NamedVenue, ScoredTeams)>>],
       [date  |-> <<2017, 9, 18>>,
        games |-> <<Game(2017010001, FinalState, UnnamedVenue, ScoredTeams)>>],
       [date  |-> <<2017, 10, 4>>,
        games |-> <<Game(2017020001, PreviewState, NamedVenue, UnscoredTeams),
                    Game(2017020002, LiveState, NamedVenue, ScoredTeams)>>] >>

\* The ids get_dates is called with: integers and numeric strings.
IntId(n) == [t |-> "int", n |-> n, s |-> <<>>]
StrId(s) == [t |-> "str", n |-> 0, s |-> s]

Ids ==
    { IntId(2016020001), StrId(<<2, 0, 1, 6, 0, 3, 0, 4, 1, 1>>),
      IntId(2017010001), StrId(<<2, 0, 1, 7, 0, 2, 0, 0, 0, 1>>) }

\* The length of the longest list get_dates is called with.
MaxIds == 2

IdLists == UNION {[1..n -> Ids] : n \in 0..MaxIds}

\* Today's date at the first read of the clock.
Todays ==
    { <<2016, 10, 11>>, <<2016, 12, 31>>, <<2017, 8, 31>>, <<2017, 10, 4>>,
      <<2018, 3, 1>> }

\* The four reads of datetime.today(), the first k of them before midnight.
Reads(today, k) == [i \in 1..4 |-> IF i <= k THEN today ELSE NextDay(today)]

InitDates == InitOn({ Seasons, SubSeq(Seasons, 1, 3) })

NextDates ==
    \/ \E arg \in IdLists, today \in Todays, k \in 0..4 :
          get_dates(arg, Reads(today, k))
    \/ get_schedule("range")
    \/ \E kind \in Failures : get_schedule_raises(kind)
    \/ return

SpecDates == InitDates /\ [][NextDates]_vars

(***************************************************************************)
(* What the claims are stated in.                                          *)
(***************************************************************************)

RECURSIVE GameEntries(_, _)
GameEntries(date, gs) ==
    IF Len(gs) = 0 THEN <<>>
    ELSE <<[date |-> date, game |-> gs[1]]>> \o GameEntries(date, Tail(gs))

RECURSIVE DayEntries(_)
DayEntries(days) ==
    IF Len(days) = 0 THEN <<>>
    ELSE GameEntries(days[1].date, days[1].games) \o DayEntries(Tail(days))

RECURSIVE Entries(_)
\* The games of a list of chunks with the date of their day: chunk by chunk,
\* day by day, game by game.
Entries(chunks) ==
    IF Len(chunks) = 0 THEN <<>> ELSE DayEntries(chunks[1]) \o Entries(Tail(chunks))

\* The games scrape_schedule walked.
Walked == Entries(sched)

\* The answers of the endpoint, in the order of the requests.
Answers == [i \in 1..Len(fetches) |-> fetches[i].dates]

\* A ten-digit gamePk without its first five digits.
DecodedId(pk) == pk % 100000

\* The completion filter and the game-type filter, as the claims word them.
Completed(g) == g.status # <<>> /\ (g.status[1].detailedState = "Final" \/ not_over)
RequestedType(pk) ==
    (DecodedId(pk) >= 20000 \/ preseason) /\ DecodedId(pk) < 40000

\* The game ids of a list of records, and of a list of games with their day.
RecordIds(recs) == [i \in 1..Len(recs) |-> recs[i].game_id]
EntryIds(es) == [i \in 1..Len(es) |-> es[i].game.gamePk]

Keeps(e) == Completed(e.game) /\ RequestedType(e.game.gamePk)

\* Every request was answered.
AllAnswered == \A i \in 1..Len(fetches) : fetches[i].outcome = "ok"

RECURSIVE DaysFromTo(_, _)
\* The number of days from date f to date t >= f, both counted.
DaysFromTo(f, t) == IF f = t THEN 1 ELSE 1 + DaysFromTo(NextDay(f), t)

\* A call with two dates of the calendar, the first not after the second.
ValidRange ==
    /\ pc # "idle"
    /\ op = "scrape_schedule"
    /\ ValidDate(date_from)
    /\ ValidDate(date_to)
    /\ DateLE(date_from, date_to)

(***************************************************************************)
(* C1. For date_from <= date_to the (f_chunk, t_chunk) pairs passed to     *)
(* get_schedule partition the range: the first starts at date_from, each   *)
(* next one starts the day after the one before ends, each has             *)
(* f_chunk <= t_chunk and at most days_per_call days, none runs past       *)
(* date_to, and once the loop is over the last one ends at date_to; a      *)
(* range of one day is one pair (date_from, date_from).                    *)
(***************************************************************************)
C1_ChunksPartitionRange ==
    ValidRange =>
        /\ Len(fetches) >= 1 => fetches[1].f = date_from
        /\ \A i \in 1..Len(fetches) :
              /\ DateLE(fetches[i].f, fetches[i].t)
              /\ DateLE(fetches[i].t, date_to)
              /\ DaysFromTo(fetches[i].f, fetches[i].t) <= days_per_call
        /\ \A i \in 1..(Len(fetches) - 1) : fetches[i + 1].f = NextDay(fetches[i].t)
        /\ (AllAnswered /\ offset >= num_days) =>
              /\ Len(fetches) >= 1
              /\ fetches[Len(fetches)].t = date_to
              /\ date_from = date_to =>
                    /\ Len(fetches) = 1
                    /\ fetches[1].f = date_from
                    /\ fetches[1].t = date_from

\* A call over a range that crosses the end of a year returned after three
\* requests.
C1_Witness ==
    /\ ValidRange
    /\ pc = "returned"
    /\ Len(fetches) = 3
    /\ date_from[1] < date_to[1]

(***************************************************************************)
(* C2. Every record scrape_schedule returns has a decoded game id below    *)
(* 40000, and of at least 20000 unless preseason is set; and every walked  *)
(* game that passes the completion filter and whose decoded id is in the   *)
(* requested range has a record in what is returned.                       *)
(***************************************************************************)
C2_GameTypeRange ==
    pc = "returned" =>
        /\ \A i \in 1..Len(schedule) :
              /\ DecodedId(schedule[i].game_id) < 40000
              /\ ~preseason => DecodedId(schedule[i].game_id) >= 20000
        /\ \A k \in 1..Len(Walked) :
              Keeps(Walked[k]) =>
                 \E i \in 1..Len(schedule) :
                    /\ schedule[i].game_id = Walked[k].game.gamePk
                    /\ schedule[i].date = Walked[k].date

\* A call without preseason returned a record and left out a finished game
\* whose decoded id is outside the range.
C2_Witness ==
    /\ pc = "returned"
    /\ ~preseason
    /\ Len(schedule) >= 1
    /\ \E k \in 1..Len(Walked) :
          /\ Completed(Walked[k].game)
          /\ ~RequestedType(Walked[k].game.gamePk)

(***************************************************************************)
(* C3. Without not_over a record is returned only for a game whose         *)
(* detailedState is "Final"; with not_over no game is left out for its     *)
(* detailedState; and a record's status is the game's abstractGameState.   *)
(***************************************************************************)
C3_CompletionFilter ==
    pc = "returned" =>
        \A k \in 1..Len(Walked) :
           LET g == Walked[k].game
           IN  /\ g.status # <<>>
               /\ (~not_over /\ g.status[1].detailedState # "Final") =>
                     \A i \in 1..Len(schedule) : schedule[i].game_id # g.gamePk
               /\ (not_over /\ RequestedType(g.gamePk)) =>
                     \E i \in 1..Len(schedule) : schedule[i].game_id = g.gamePk
               /\ \A i \in 1..Len(schedule) :
                     schedule[i].game_id = g.gamePk =>
                        schedule[i].status = g.status[1].abstractGameState

\* A call with not_over returned the record of a game that is not final, its
\* status the abstract state.
C3_Witness ==
    /\ pc = "returned"
    /\ not_over
    /\ \E k \in 1..Len(Walked), i \in 1..Len(schedule) :
          /\ Walked[k].game.status[1].detailedState = "Scheduled"
          /\ schedule[i].game_id = Walked[k].game.gamePk
          /\ schedule[i].status = "Preview"

(***************************************************************************)
(* C6. A call with date_from later than date_to does not return: it        *)
(* raises, and it makes no request.                                        *)
(***************************************************************************)
C6_InvertedRangeRaises ==
    (/\ pc # "idle"
     /\ op = "scrape_schedule"
     /\ ValidDate(date_from)
     /\ ValidDate(date_to)
     /\ DateLT(date_to, date_from)) =>
        /\ pc # "returned"
        /\ fetches = <<>>

(***************************************************************************)
(* C7. A walked game without teams or without status makes the call        *)
(* raise, whatever its state, its game type and the flags: no call that    *)
(* walked such a game returns.                                             *)
(***************************************************************************)
C7_MissingFieldRaises ==
    pc = "returned" =>
        \A k \in 1..Len(Walked) :
           /\ Walked[k].game.teams # <<>>
           /\ Walked[k].game.status # <<>>

(***************************************************************************)
(* C8. A request that fails is the call's last: the call raises the        *)
(* request's exception and returns nothing, no request follows it, and no  *)
(* range is requested twice.                                               *)
(***************************************************************************)
C8_FailedChunkAborts ==
    \A i \in 1..Len(fetches) :
       /\ fetches[i].outcome # "ok" =>
             /\ i = Len(fetches)
             /\ pc = "raised"
             /\ error = fetches[i].outcome
             /\ schedule = <<>>
             /\ result = <<>>
       /\ \A j \in 1..Len(fetches) : i # j => fetches[i].f # fetches[j].f

\* The second request of a call failed after the first was answered with a
\* day of games.
C8_Witness ==
    /\ pc = "raised"
    /\ Len(fetches) = 2
    /\ fetches[2].outcome # "ok"
    /\ Len(sched) = 1
    /\ Len(Entries(sched)) >= 1

\* Every answer lists days of its request's range only, in ascending order.
AnswersInRange ==
    \A i \in 1..Len(fetches) :
       LET d == fetches[i].dates
       IN  /\ \A j \in 1..Len(d) :
                /\ DateLE(fetches[i].f, d[j].date)
                /\ DateLE(d[j].date, fetches[i].t)
           /\ \A j \in 1..Len(d), k \in 1..Len(d) :
                j < k => DateLE(d[j].date, d[k].date)

(***************************************************************************)
(* C9. Requests are made in ascending order of their first day; what is    *)
(* walked is the answers in the order of the requests; the records come in *)
(* the order chunk, day, game of the answers; and when every answer lists  *)
(* days of its range only, in ascending order, the records returned are    *)
(* non-decreasing by date.                                                 *)
(***************************************************************************)
C9_EmissionOrder ==
    /\ \A i \in 1..Len(fetches), j \in 1..Len(fetches) :
          i < j => DateLT(fetches[i].f, fetches[j].f)
    /\ pc = "returned" =>
          /\ sched = Answers
          /\ RecordIds(schedule) = EntryIds(SelectSeq(Entries(Answers), Keeps))
          /\ AnswersInRange =>
                \A i \in 1..Len(schedule), j \in 1..Len(schedule) :
                   i < j => DateLE(schedule[i].date, schedule[j].date)

\* A call of several requests, answered in range, returned two records of
\* one day followed by a record of a later day.
C9_Witness ==
    /\ pc = "returned"
    /\ Len(fetches) >= 2
    /\ AnswersInRange
    /\ \E i \in 1..Len(schedule), j \in 1..Len(schedule), k \in 1..Len(schedule) :
          /\ i < j /\ j < k
          /\ schedule[i].date = schedule[j].date
          /\ DateLT(schedule[j].date, schedule[k].date)

(***************************************************************************)
(* C10. Venue and scores are optional: when every request was answered and *)
(* every walked game has its status and its teams, the call returns, and   *)
(* every game that passes both filters has a record whose venue and scores *)
(* are the game's, or None where the game has none.                        *)
(***************************************************************************)
C10_OptionalVenueAndScores ==
    (/\ pc \in {"returned", "raised"}
     /\ error # "ValueError"
     /\ AllAnswered
     /\ \A k \in 1..Len(Walked) :
           Walked[k].game.status # <<>> /\ Walked[k].game.teams # <<>>) =>
        /\ pc = "returned"
        /\ \A k \in 1..Len(Walked) :
              LET g == Walked[k].game
              IN  Keeps(Walked[k]) =>
                     \E i \in 1..Len(schedule) :
                        /\ schedule[i].game_id = g.gamePk
                        /\ schedule[i].venue =
                              (IF g.venue = <<>> THEN <<>> ELSE g.venue[1].name)
                        /\ schedule[i].home_score = g.teams[1].home.score
                        /\ schedule[i].away_score = g.teams[1].away.score

(***************************************************************************)
(* get_dates.                                                              *)
(***************************************************************************)

\* Whether a record's game id, as a string, is one of the caller's ids.
Requested(r) == \E i \in 1..Len(arg_games) : StrOf(arg_games[i]) = str(r.game_id)

(***************************************************************************)
(* C4. What get_dates returns is the records scrape_schedule returned for  *)
(* the inferred range with preseason and not_over set, less those whose    *)
(* game id, as a string, is none of the caller's ids: no other record, no  *)
(* requested record missing, in the order scrape_schedule returned them.   *)
(***************************************************************************)
C4_RequestedRecordsOnly ==
    (op = "get_dates" /\ pc = "returned") =>
        /\ preseason /\ not_over
        /\ schedule = WalkChunks(sched, TRUE, TRUE, [error |-> "", schedule |-> <<>>]).schedule
        /\ result = SelectSeq(schedule, Requested)

\* get_dates returned the records of two ids in the order opposite to the
\* caller's, and left other records out.
C4_Witness ==
    /\ op = "get_dates"
    /\ pc = "returned"
    /\ Len(arg_games) = 2
    /\ Len(result) = 2
    /\ Len(schedule) > 2
    /\ StrOf(arg_games[1]) = str(result[2].game_id)
    /\ StrOf(arg_games[2]) = str(result[1].game_id)
    /\ arg_games[1].t # arg_games[2].t

\* The season year of a requested id: its first four digits.
SeasonOfId(g) == int(Prefix(StrOf(g), 4))

\* The season year of a date: seasons start on September 1.
SeasonOfDate(d) == IF d[2] >= 9 THEN d[1] ELSE d[1] - 1

\* The dates the endpoint schedules the game of a requested id on.
ScheduledOn(g) ==
    {upstream[j].date : j \in {j \in 1..Len(upstream) :
        \E k \in 1..Len(upstream[j].games) : str(upstream[j].games[k].gamePk) = StrOf(g)}}

\* Date d is in the season that starts in year y.
InSeason(d, y) == DateLE(<<y, 9, 1>>, d) /\ DateLE(d, <<y + 1, 7, 1>>)

\* The latest season among the requested ids.
LatestSeason ==
    CHOOSE y \in {SeasonOfId(arg_games[i]) : i \in 1..Len(arg_games)} :
       \A i \in 1..Len(arg_games) : SeasonOfId(arg_games[i]) <= y

\* get_dates has inferred its range.
RangeInferred == op = "get_dates" /\ pc # "idle" /\ Len(arg_games) > 0

\* The clock showed one date at all four reads.
OneToday == \A i \in 1..4 : clock[i] = clock[1]

==========================================================================
